---- MODULE Spec2Model ----
(***************************************************************************)
(* A model of faiss 1.2.1's exact indexes (src/IndexFlat.cpp, src/Index.h): *)
(*   IndexFlat        the contiguous vector store (add, reset, remove_ids), *)
(*   IndexFlat1D      the sorted one-dimensional index,                     *)
(*   IndexRefineFlat  a coarse index reranked by an internal IndexFlat.     *)
(* Floats are modelled by integers: every stored coordinate and query is a  *)
(* small integer, on which float subtraction, multiplication and comparison *)
(* are exact.  Buffers are 1-based sequences; the code's 0-based index i is *)
(* position i+1.                                                            *)
(***************************************************************************)
EXTENDS Integers, Sequences, FiniteSets, TLC

(***************************************************************************)
(* Bounds of the model.                                                     *)
(***************************************************************************)
\* the largest ntotal of an IndexFlat or IndexFlat1D, the largest ntotal of
\* the indexes of an IndexRefineFlat, the most vectors one add brings, the
\* largest k.  A search call brings one query (n = 1): the iterations of the
\* query loops are independent, each writes its own row.
MaxN == 3
MaxNR == 2
MaxAdd == 1
MaxK == 2

\* the dimensions d of the IndexFlat and IndexRefineFlat configurations
Dims == {1, 2}

\* stored 1-D coordinates and 1-D queries (IndexFlat1D)
Vals == {1, 3, 5}
Queries == {0, 3, 4, 6}
\* coordinates of stored vectors and of queries (IndexFlat, IndexRefineFlat)
Coords == {0, 1}

\* the value an out-of-bounds read of a float buffer / of perm may produce
JunkX == {0, 6}
JunkP == {0, MaxN + 1}
\* a search that reads inside its buffers does not depend on the junk; it is
\* computed with this one
NoJunk == [p |-> 0, x |-> 0]

\* src/IndexFlat.cpp:397 and :412, the float 1.0 / 0.0
INF == 1000

METRIC_INNER_PRODUCT == 0
METRIC_L2 == 1

VARIABLES
    d,                 \* Index::d
    metric_type,       \* Index::metric_type
    xb,                \* IndexFlat::xb, the row-major buffer
    ntotal,            \* Index::ntotal of the IndexFlat
    perm,              \* IndexFlat1D::perm
    continuous_update, \* IndexFlat1D::continuous_update
    stale,             \* history: an add of >= 1 vector happened since the last
                       \* update_permutation / reset (the Dirty state)
    ret,               \* <<r>>: the value the last remove_ids returned, else <<>>
    xq,                \* the queries of the last search, row-major
    k,                 \* the k of the last search
    distances,         \* the slots of the caller's distances buffer the last
                       \* search wrote (all n*k of them, or none)
    labels,            \* same for the labels buffer
    status,            \* how the last search ended: "none" (no search since
                       \* the last mutation), "ok", "throw" (FaissException),
                       \* "abort" (failed assert), "crash" (memory fault)
    oob,               \* the last search read outside a buffer
    base_xb,           \* the vectors of *base_index, the coarse index
    base_ntotal,       \* base_index->ntotal
    base_is_trained,   \* base_index->is_trained
    composed,          \* "no": no IndexRefineFlat yet; "yes": constructed on
                       \* base_index; "failed": its constructor threw
    is_trained,        \* IndexRefineFlat::is_trained
    rf_ntotal,         \* IndexRefineFlat::ntotal (xb, ntotal: its refine_index)
    k_factor,          \* IndexRefineFlat::k_factor, a fraction <<num, den>>
    ndebug,            \* the build defines NDEBUG: assert expands to nothing
    k_base,            \* k_base of the last IndexRefineFlat::search
    base_labels        \* the labels base_index->search returned to it

refineVars == <<base_xb, base_ntotal, base_is_trained, composed, is_trained,
                rf_ntotal, k_factor, ndebug>>
refineOut == <<k_base, base_labels>>

vars == <<d, metric_type, xb, ntotal, perm, continuous_update, stale, ret,
          xq, k, distances, labels, status, oob, refineVars, refineOut>>

flatVars == <<d, metric_type, xb, ntotal>>

(***************************************************************************)
(* Helpers on sequences.                                                    *)
(***************************************************************************)
\* all sequences over S of length exactly n
SeqsOfLen(S, n) == [1 .. n -> S]

\* the i-th (0-based) row of a row-major buffer with rows of width w
Row(buf, w, i) == SubSeq(buf, i * w + 1, i * w + w)

RECURSIVE Concat(_)
Concat(ss) == IF ss = <<>> THEN <<>> ELSE Head(ss) \o Concat(Tail(ss))

NoOutput ==
    /\ xq' = <<>>
    /\ k' = 0
    /\ distances' = <<>>
    /\ labels' = <<>>
    /\ status' = "none"
    /\ oob' = FALSE
    /\ k_base' = 0
    /\ base_labels' = <<>>

(***************************************************************************)
(* IndexFlat: add, reset, remove_ids.                                       *)
(***************************************************************************)
\* xb.insert(xb.end(), x, x + n * d)
IndexFlat_add_xb(buf, x) == buf \o x

\* (mutant) the compaction loop without its memmove
RECURSIVE RemoveLoop_nomove(_, _, _, _, _, _)
RemoveLoop_nomove(buf, w, nt, sel, i, j) ==
    IF i < nt
    THEN IF i \in sel
         THEN RemoveLoop_nomove(buf, w, nt, sel, i + 1, j)
         ELSE RemoveLoop_nomove(buf, w, nt, sel, i + 1, j + 1)
    ELSE <<buf, j>>

\* the compaction loop of remove_ids: i runs over 0 .. nt-1, j counts the
\* survivors; memmove copies row i onto row j when i > j.  Returns <<buf, j>>.
RECURSIVE RemoveLoop(_, _, _, _, _, _)
RemoveLoop(buf, w, nt, sel, i, j) ==
    IF i < nt
    THEN IF i \in sel
         THEN RemoveLoop(buf, w, nt, sel, i + 1, j)
         ELSE LET moved == IF i > j
                           THEN [p \in 1 .. Len(buf) |->
                                   IF p > w * j /\ p <= w * j + w
                                   THEN buf[w * i + (p - w * j)]
                                   ELSE buf[p]]
                           ELSE buf
              IN RemoveLoop(moved, w, nt, sel, i + 1, j + 1)
    ELSE <<buf, j>>

\* (mutant) remove_ids without xb.resize
IndexFlat_remove_ids_noresize(buf, w, nt, sel) ==
    LET r == RemoveLoop(buf, w, nt, sel, 0, 0)
        j == r[2]
        nremove == nt - j
    IN IF nremove > 0
       THEN [xb |-> r[1], ntotal |-> j, nremove |-> nremove]
       ELSE [xb |-> r[1], ntotal |-> nt, nremove |-> nremove]

\* IndexFlat::remove_ids: [xb, ntotal, nremove] after the call
IndexFlat_remove_ids(buf, w, nt, sel) ==
    LET r == RemoveLoop(buf, w, nt, sel, 0, 0)
        j == r[2]
        nremove == nt - j
    IN IF nremove > 0
       THEN [xb |-> SubSeq(r[1], 1, j * w), ntotal |-> j, nremove |-> nremove]
       ELSE [xb |-> r[1], ntotal |-> nt, nremove |-> nremove]


(***************************************************************************)
(* IndexFlat1D.                                                             *)
(***************************************************************************)
\* fvec_argsort (utils.cpp): the permutations of 0 .. nt-1 that list the
\* values of buf in non-decreasing order; equal values come in any order
SortPerms(buf, nt) ==
    {p \in SeqsOfLen(0 .. nt - 1, nt) :
        /\ \A a, b \in 1 .. nt : a # b => p[a] # p[b]
        /\ \A a \in 1 .. nt - 1 : buf[p[a] + 1] <= buf[p[a + 1] + 1]}

\* the precondition of IndexFlat1D::search
PermSizeOk(pm, nt) == Len(pm) = nt

\* (mutant) the frontier comparison reversed
TakeLeft_reversed(q, xleft, xright) == q - xleft > xright - q

\* (mutant) the frontier comparison with <= : the left side wins a tie
TakeLeft_le(q, xleft, xright) == q - xleft <= xright - q

\* the comparison that picks the frontier in the expansion loop
TakeLeft(q, xleft, xright) == q - xleft < xright - q

\* One iteration of the query loop of IndexFlat1D::search: the k slots D and I
\* of query q, and whether a read fell outside perm or xb.  junk gives the
\* values such reads produce.
IndexFlat1D_search_one(buf, pm, nt, q, kk, junk) ==
    LET InP(i) == i >= 0 /\ i < Len(pm)
        P(i) == IF InP(i) THEN pm[i + 1] ELSE junk.p
        InX(j) == j >= 0 /\ j < Len(buf)
        XP(i) == IF InX(P(i)) THEN buf[P(i) + 1] ELSE junk.x
        Bad(i) == ~InP(i) \/ ~InX(P(i))
        RECURSIVE FinishRight(_)
        FinishRight(s) ==
            IF s.wp < kk
            THEN IF s.i1 < nt
                 THEN FinishRight([s EXCEPT !.D = Append(@, XP(s.i1) - q),
                                            !.I = Append(@, P(s.i1)),
                                            !.oob = @ \/ Bad(s.i1),
                                            !.i1 = @ + 1, !.wp = @ + 1])
                 ELSE FinishRight([s EXCEPT !.D = Append(@, INF),
                                            !.I = Append(@, -1),
                                            !.wp = @ + 1])
            ELSE s
        RECURSIVE FinishLeft(_)
        FinishLeft(s) ==
            IF s.wp < kk
            THEN IF s.i0 >= 0
                 THEN FinishLeft([s EXCEPT !.D = Append(@, q - XP(s.i0)),
                                           !.I = Append(@, P(s.i0)),
                                           !.oob = @ \/ Bad(s.i0),
                                           !.i0 = @ - 1, !.wp = @ + 1])
                 ELSE FinishLeft([s EXCEPT !.D = Append(@, INF),
                                           !.I = Append(@, -1),
                                           !.wp = @ + 1])
            ELSE s
        RECURSIVE BinSearch(_)
        BinSearch(s) ==
            IF s.i0 + 1 < s.i1
            THEN LET imed == (s.i0 + s.i1) \div 2
                 IN IF XP(imed) <= q
                    THEN BinSearch([s EXCEPT !.i0 = imed, !.oob = @ \/ Bad(imed)])
                    ELSE BinSearch([s EXCEPT !.i1 = imed, !.oob = @ \/ Bad(imed)])
            ELSE s
        RECURSIVE Expand(_)
        Expand(s) ==
            IF s.wp < kk
            THEN LET xleft == XP(s.i0)
                     xright == XP(s.i1)
                     rd == s.oob \/ Bad(s.i0) \/ Bad(s.i1)
                 IN IF TakeLeft(q, xleft, xright)
                    THEN LET t == [s EXCEPT !.D = Append(@, q - xleft),
                                            !.I = Append(@, P(s.i0)),
                                            !.oob = rd,
                                            !.i0 = @ - 1, !.wp = @ + 1]
                         IN IF t.i0 < 0 THEN FinishRight(t) ELSE Expand(t)
                    ELSE LET t == [s EXCEPT !.D = Append(@, xright - q),
                                            !.I = Append(@, P(s.i1)),
                                            !.oob = rd,
                                            !.i1 = @ + 1, !.wp = @ + 1]
                         IN IF t.i1 >= nt THEN FinishLeft(t) ELSE Expand(t)
            ELSE s
        s0 == [i0 |-> 0, i1 |-> nt, wp |-> 0, D |-> <<>>, I |-> <<>>,
               oob |-> Bad(0)]
    IN IF XP(0) > q
       THEN FinishRight([s0 EXCEPT !.i1 = 0])
       ELSE IF XP(nt - 1) <= q
            THEN FinishLeft([s0 EXCEPT !.i0 = nt - 1, !.oob = @ \/ Bad(nt - 1)])
            ELSE Expand(BinSearch([s0 EXCEPT !.oob = @ \/ Bad(nt - 1)]))

\* the whole query loop: the n rows of D and I, in query order
RECURSIVE IndexFlat1D_search_all(_, _, _, _, _, _)
IndexFlat1D_search_all(buf, pm, nt, x, kk, junk) ==
    IF x = <<>>
    THEN [D |-> <<>>, I |-> <<>>, oob |-> FALSE]
    ELSE \* a one-element set, so that each result is computed once
         CHOOSE r \in
           { [D |-> one.D \o rest.D, I |-> one.I \o rest.I,
              oob |-> one.oob \/ rest.oob] :
               one \in {IndexFlat1D_search_one(buf, pm, nt, Head(x), kk, junk)},
               rest \in {IndexFlat1D_search_all(buf, pm, nt, Tail(x), kk, junk)} } :
           TRUE

(***************************************************************************)
(* The bounded top-k selection (Heap.h) and the scans that feed it          *)
(* (utils.cpp).  A heap is [val, ids]: two buffers of k slots, 1-based as   *)
(* in the code after its "bh_val--; bh_ids--".  m is the metric: it picks   *)
(* the comparator C, CMax for METRIC_L2 and CMin for METRIC_INNER_PRODUCT.  *)
(***************************************************************************)
\* std::numeric_limits<float>::max()
FLT_MAX == 999

\* C::cmp (a, b)
Cmp(m, a, b) == IF m = METRIC_L2 THEN a > b ELSE a < b

\* C::neutral ()
Neutral(m) == IF m = METRIC_L2 THEN FLT_MAX ELSE 0 - FLT_MAX

SetSlot(h, i, v, id) ==
    [val |-> [h.val EXCEPT ![i] = v], ids |-> [h.ids EXCEPT ![i] = id]]

\* the sift-up loop of heap_push: <<heap, i>> when it stops
RECURSIVE PushLoop(_, _, _, _)
PushLoop(m, h, v, i) ==
    IF i > 1
    THEN LET i_father == i \div 2
         IN IF ~Cmp(m, v, h.val[i_father])
            THEN <<h, i>>
            ELSE PushLoop(m, SetSlot(h, i, h.val[i_father], h.ids[i_father]),
                          v, i_father)
    ELSE <<h, i>>

\* heap_push<C> (kk, bh_val, bh_ids, v, id): kk is the size after the push
heap_push(m, kk, h, v, id) ==
    CHOOSE r \in {SetSlot(t[1], t[2], v, id) : t \in {PushLoop(m, h, v, kk)}} : TRUE

\* the sift-down loop of heap_pop: <<heap, i>> when it stops
RECURSIVE PopLoop(_, _, _, _, _)
PopLoop(m, kk, h, v, i) ==
    LET i1 == 2 * i
        i2 == i1 + 1
    IN IF i1 > kk
       THEN <<h, i>>
       ELSE IF i2 = kk + 1 \/ Cmp(m, h.val[i1], h.val[i2])
            THEN IF Cmp(m, v, h.val[i1])
                 THEN <<h, i>>
                 ELSE PopLoop(m, kk, SetSlot(h, i, h.val[i1], h.ids[i1]), v, i1)
            ELSE IF Cmp(m, v, h.val[i2])
                 THEN <<h, i>>
                 ELSE PopLoop(m, kk, SetSlot(h, i, h.val[i2], h.ids[i2]), v, i2)

\* heap_pop<C> (kk, bh_val, bh_ids): kk is the size before the pop
heap_pop(m, kk, h) ==
    CHOOSE r \in {SetSlot(t[1], t[2], t[1].val[kk], t[1].ids[kk]) :
                     t \in {PopLoop(m, kk, h, h.val[kk], 1)}} : TRUE

\* heap_heapify<C> (kk, bh_val, bh_ids, x, ids, k0): pushes x[0 .. k0-1], fills
\* the other slots with the neutral value and label -1.  h is the buffer the
\* heap is built in; x and ids are in, or h itself when alias (the caller
\* passed the same buffers for both).
RECURSIVE HeapifyPush(_, _, _, _, _, _)
HeapifyPush(m, h, in, alias, k0, i) ==
    IF i < k0
    THEN LET src == IF alias THEN h ELSE in
         IN HeapifyPush(m, heap_push(m, i + 1, h, src.val[i + 1], src.ids[i + 1]),
                        in, alias, k0, i + 1)
    ELSE h

heap_heapify(m, kk, h, in, alias, k0) ==
    LET g == HeapifyPush(m, h, in, alias, k0, 0)
    IN [val |-> [i \in 1 .. kk |-> IF i > k0 THEN Neutral(m) ELSE g.val[i]],
        ids |-> [i \in 1 .. kk |-> IF i > k0 THEN -1 ELSE g.ids[i]]]

\* heap_addn<C> (kk, bh_val, bh_ids, x, ids, n): x and ids are in[from ..]
RECURSIVE heap_addn(_, _, _, _, _, _)
heap_addn(m, kk, h, in, from, n) ==
    IF n = 0
    THEN h
    ELSE IF Cmp(m, h.val[1], in.val[from])
         THEN heap_addn(m, kk,
                        heap_push(m, kk, heap_pop(m, kk, h),
                                  in.val[from], in.ids[from]),
                        in, from + 1, n - 1)
         ELSE heap_addn(m, kk, h, in, from + 1, n - 1)

\* the first loop of heap_reorder: pops the root kk times, each time storing
\* it at slot kk - ii; ii counts the popped elements whose label is not -1
RECURSIVE ReorderLoop(_, _, _, _, _)
ReorderLoop(m, kk, h, i, ii) ==
    IF i < kk
    THEN LET v == h.val[1]
             id == h.ids[1]
             g == SetSlot(heap_pop(m, kk - i, h), kk - ii, v, id)
         IN ReorderLoop(m, kk, g, i + 1, IF id # -1 THEN ii + 1 ELSE ii)
    ELSE <<h, ii>>

\* heap_reorder<C> (kk, bh_val, bh_ids): the ii elements moved to the front,
\* best first, the other slots set to the neutral value and label -1
heap_reorder(m, kk, h) ==
    LET r == ReorderLoop(m, kk, h, 0, 0)
        g == r[1]
        ii == r[2]
    IN [val |-> [i \in 1 .. kk |-> IF i <= ii THEN g.val[kk - ii + i] ELSE Neutral(m)],
        ids |-> [i \in 1 .. kk |-> IF i <= ii THEN g.ids[kk - ii + i] ELSE -1]]

RECURSIVE SumTo(_, _)
SumTo(f, n) == IF n = 0 THEN 0 ELSE f[n] + SumTo(f, n - 1)

\* fvec_L2sqr (x, y, d) and fvec_inner_product (x, y, d)
Dist(m, x, y) ==
    IF m = METRIC_L2
    THEN SumTo([i \in 1 .. Len(x) |-> (x[i] - y[i]) * (x[i] - y[i])], Len(x))
    ELSE SumTo([i \in 1 .. Len(x) |-> x[i] * y[i]], Len(x))

\* the scan of knn_L2sqr / knn_inner_product over the rows j .. nt-1
RECURSIVE KnnScan(_, _, _, _, _, _, _, _)
KnnScan(m, q, buf, w, nt, kk, h, j) ==
    IF j < nt
    THEN LET dis == Dist(m, q, Row(buf, w, j))
         IN IF Cmp(m, h.val[1], dis)
            THEN KnnScan(m, q, buf, w, nt, kk,
                         heap_push(m, kk, heap_pop(m, kk, h), dis, j), j + 1)
            ELSE KnnScan(m, q, buf, w, nt, kk, h, j + 1)
    ELSE h

\* a buffer of kk slots the code has not written yet (never read before it is)
Fresh(kk) == [val |-> [i \in 1 .. kk |-> 0], ids |-> [i \in 1 .. kk |-> 0]]

\* IndexFlat::search for one query: knn_L2sqr or knn_inner_product
IndexFlat_search(m, q, buf, w, nt, kk) ==
    LET empty == heap_heapify(m, kk, Fresh(kk), Fresh(kk), FALSE, 0)
    IN heap_reorder(m, kk, KnnScan(m, q, buf, w, nt, kk, empty, 0))

(***************************************************************************)
(* IndexRefineFlat.                                                         *)
(***************************************************************************)
\* (mutant) k_base rounded to the nearest integer
KBase_round(kk, kf) == (2 * kk * kf[1] + kf[2]) \div (2 * kf[2])

\* idx_t k_base = idx_t (k * k_factor): the conversion truncates
KBase(kk, kf) == (kk * kf[1]) \div kf[2]

\* the condition of the assert on the labels of the coarse index
LabelsInRange(ids, nt) ==
    \A i \in 1 .. Len(ids) : ids[i] >= -1 /\ ids[i] < nt

\* IndexFlat::compute_distance_subset for one query (fvec_L2sqr_by_idx,
\* fvec_inner_products_by_idx): the distance of slot i becomes the exact one
\* to vector in.ids[i]; a slot with a negative label is skipped.  A label past
\* the end of buf reads outside it and yields junk.
compute_distance_subset(m, q, buf, w, in, junk) ==
    [val |-> [i \in 1 .. Len(in.ids) |->
                 IF in.ids[i] < 0 THEN in.val[i]
                 ELSE IF (in.ids[i] + 1) * w <= Len(buf)
                      THEN Dist(m, q, Row(buf, w, in.ids[i]))
                      ELSE junk],
     ids |-> in.ids]

SubsetReadsOutside(buf, w, ids) ==
    \E i \in 1 .. Len(ids) : ids[i] >= 0 /\ (ids[i] + 1) * w > Len(buf)

\* (mutant) reorder_2_heaps without its heap_reorder
reorder_2_heaps_unsorted(m, kk, kb, in) ==
    LET alias == kb = kk
        h0 == IF alias THEN in ELSE Fresh(kk)
        h1 == heap_heapify(m, kk, h0, in, alias, kk)
    IN IF kb # kk THEN heap_addn(m, kk, h1, in, kk + 1, kb - kk) ELSE h1

\* reorder_2_heaps<C> for one query: in holds the k_base reranked candidates;
\* the result is built in the caller's buffers, which are in itself when
\* k_base = k
reorder_2_heaps(m, kk, kb, in) ==
    LET alias == kb = kk
        h0 == IF alias THEN in ELSE Fresh(kk)
        h1 == heap_heapify(m, kk, h0, in, alias, kk)
        h2 == IF kb # kk THEN heap_addn(m, kk, h1, in, kk + 1, kb - kk) ELSE h1
    IN heap_reorder(m, kk, h2)

(***************************************************************************)
(* Operations of IndexFlat (also inherited by IndexFlat1D).                 *)
(***************************************************************************)
\* IndexFlat::add (n, x)
IndexFlat_add(n, x) ==
    /\ xb' = IndexFlat_add_xb(xb, x)
    /\ ntotal' = ntotal + n

\* IndexFlat::reset
IndexFlat_reset ==
    /\ xb' = <<>>
    /\ ntotal' = 0

\* IndexFlat::remove_ids (sel); IndexFlat1D does not override it
RemoveIds(sel) ==
    LET r == IndexFlat_remove_ids(xb, d, ntotal, sel)
    IN /\ xb' = r.xb
       /\ ntotal' = r.ntotal
       /\ ret' = <<r.nremove>>
       /\ NoOutput
       /\ UNCHANGED <<d, metric_type, perm, continuous_update, stale, refineVars>>

Add(n, x) ==
    /\ ntotal + n <= MaxN
    /\ IndexFlat_add(n, x)
    /\ ret' = <<>>
    /\ NoOutput
    /\ UNCHANGED <<d, metric_type, perm, continuous_update, stale, refineVars>>

Reset ==
    /\ IndexFlat_reset
    /\ ret' = <<>>
    /\ NoOutput
    /\ UNCHANGED <<d, metric_type, perm, continuous_update, stale, refineVars>>

(***************************************************************************)
(* Operations of IndexFlat1D.                                               *)
(***************************************************************************)
\* IndexFlat1D::update_permutation, on the store as it will be after the step
IndexFlat1D_update_permutation ==
    perm' \in SortPerms(xb', ntotal')

UpdatePermutation ==
    /\ UNCHANGED flatVars
    /\ IndexFlat1D_update_permutation
    /\ stale' = FALSE
    /\ ret' = <<>>
    /\ NoOutput
    /\ UNCHANGED <<continuous_update, refineVars>>

\* IndexFlat1D::add (n, x)
Add1D(n, x) ==
    /\ ntotal + n <= MaxN
    /\ IndexFlat_add(n, x)
    /\ IF continuous_update
       THEN IndexFlat1D_update_permutation /\ stale' = FALSE
       ELSE perm' = perm /\ stale' = (stale \/ n >= 1)
    /\ ret' = <<>>
    /\ NoOutput
    /\ UNCHANGED <<d, metric_type, continuous_update, refineVars>>

\* IndexFlat1D::reset
Reset1D ==
    /\ IndexFlat_reset
    /\ perm' = <<>>
    /\ stale' = FALSE
    /\ ret' = <<>>
    /\ NoOutput
    /\ UNCHANGED <<d, metric_type, continuous_update, refineVars>>

\* IndexFlat1D::search (n, x, k, distances, labels), n = Len(x)
Search1D(x, kk) ==
    /\ xq' = x
    /\ k' = kk
    /\ ret' = <<>>
    /\ UNCHANGED <<flatVars, perm, continuous_update, stale, refineVars, refineOut>>
    /\ IF ~PermSizeOk(perm, ntotal)
       THEN /\ status' = "throw"
            /\ distances' = <<>>
            /\ labels' = <<>>
            /\ oob' = FALSE
       ELSE \E r0 \in {IndexFlat1D_search_all(xb, perm, ntotal, x, kk, NoJunk)} :
              IF ~r0.oob
              THEN /\ status' = "ok"
                   /\ distances' = r0.D
                   /\ labels' = r0.I
                   /\ oob' = FALSE
              ELSE \E junk \in [p : JunkP, x : JunkX] :
                     \E r \in {IndexFlat1D_search_all(xb, perm, ntotal, x, kk, junk)} :
                        \/ /\ status' = "ok"
                           /\ distances' = r.D
                           /\ labels' = r.I
                           /\ oob' = TRUE
                        \/ /\ status' = "crash"
                           /\ distances' = <<>>
                           /\ labels' = <<>>
                           /\ oob' = TRUE

\* no IndexRefineFlat in this configuration
NoRefine ==
    /\ base_xb = <<>>
    /\ base_ntotal = 0
    /\ base_is_trained = TRUE
    /\ composed = "no"
    /\ is_trained = TRUE
    /\ rf_ntotal = 0
    /\ k_factor = <<1, 1>>
    /\ ndebug = FALSE
    /\ k_base = 0
    /\ base_labels = <<>>

Init1D ==
    /\ d = 1
    /\ metric_type = METRIC_L2
    /\ xb = <<>>
    /\ ntotal = 0
    /\ perm = <<>>
    /\ continuous_update \in BOOLEAN
    /\ stale = FALSE
    /\ ret = <<>>
    /\ xq = <<>>
    /\ k = 0
    /\ distances = <<>>
    /\ labels = <<>>
    /\ status = "none"
    /\ oob = FALSE
    /\ NoRefine

Next1D ==
    \/ \E n \in 0 .. MaxAdd : \E x \in SeqsOfLen(Vals, n) : Add1D(n, x)
    \/ Reset1D
    \/ \E sel \in SUBSET (0 .. ntotal - 1) : RemoveIds(sel)
    \/ UpdatePermutation
    \/ \E q \in Queries : \E kk \in 1 .. MaxK : Search1D(<<q>>, kk)

Spec1D == Init1D /\ [][Next1D]_vars

(***************************************************************************)
(* A free-standing IndexFlat of dimension d.                                *)
(***************************************************************************)
InitFlat ==
    /\ d \in Dims
    /\ metric_type \in {METRIC_INNER_PRODUCT, METRIC_L2}
    /\ xb = <<>>
    /\ ntotal = 0
    /\ perm = <<>>
    /\ continuous_update = FALSE
    /\ stale = FALSE
    /\ ret = <<>>
    /\ xq = <<>>
    /\ k = 0
    /\ distances = <<>>
    /\ labels = <<>>
    /\ status = "none"
    /\ oob = FALSE
    /\ NoRefine

NextFlat ==
    \/ \E n \in 0 .. MaxAdd : \E x \in SeqsOfLen(Coords, n * d) : Add(n, x)
    \/ Reset
    \/ \E sel \in SUBSET (0 .. ntotal - 1) : RemoveIds(sel)

SpecFlat == InitFlat /\ [][NextFlat]_vars

(***************************************************************************)
(* Claims about IndexFlat1D, checked under Spec1D.                          *)
(***************************************************************************)
Abs(a) == IF a < 0 THEN 0 - a ELSE a

\* the last operation was a search that returned normally
Searched == status = "ok"

\* the Sorted state: perm is a sort permutation of the current store
Sorted == perm \in SortPerms(xb, ntotal)

\* row i (0-based) of the outputs of the last search
DRow(i) == Row(distances, k, i)
IRow(i) == Row(labels, k, i)

\* slots 1 .. m of row i hold m distinct stored vectors, nearest first, with
\* their distances to the query, and no vector left out is nearer
NearestFirst(i, m) ==
    LET q == xq[i + 1]
        D == DRow(i)
        I == IRow(i)
    IN /\ \A j \in 1 .. m : I[j] \in 0 .. ntotal - 1 /\ D[j] = Abs(xb[I[j] + 1] - q)
       /\ \A a, b \in 1 .. m : a # b => I[a] # I[b]
       /\ \A j \in 1 .. m - 1 : D[j] <= D[j + 1]
       /\ \A l \in 0 .. ntotal - 1 :
             (\A j \in 1 .. m : I[j] # l) => \A j \in 1 .. m : D[j] <= Abs(xb[l + 1] - q)

\* C1: on a Sorted index, a search with 1 <= k <= ntotal returns, for every
\* query, the k smallest |x_i - q| in non-decreasing order, each with the label
\* of a distinct stored vector at exactly that distance.
C1_SearchCorrect ==
    (Searched /\ Sorted /\ 1 <= k /\ k <= ntotal)
        => /\ Len(distances) = Len(xq) * k
           /\ Len(labels) = Len(xq) * k
           /\ ~oob
           /\ \A i \in 0 .. Len(xq) - 1 : NearestFirst(i, k)

\* a search that took neighbours on both sides of the query
C1_Witness ==
    /\ Searched /\ Sorted /\ k = 2 /\ ntotal = 3 /\ Len(xq) = 1
    /\ NearestFirst(0, 2)
    /\ xb[labels[1] + 1] > xq[1]
    /\ xb[labels[2] + 1] < xq[1]

\* the two frontiers of query q are equally far: the largest value <= q and
\* the smallest value > q exist and q is halfway between them
FrontierTie(q) ==
    /\ \E l \in 1 .. ntotal : xb[l] <= q
    /\ \E r \in 1 .. ntotal : xb[r] > q
    /\ \E l, r \in 1 .. ntotal :
          /\ xb[l] <= q /\ \A m \in 1 .. ntotal : xb[m] <= q => xb[m] <= xb[l]
          /\ xb[r] > q /\ \A m \in 1 .. ntotal : xb[m] > q => xb[m] >= xb[r]
          /\ q - xb[l] = xb[r] - q

\* the scenario of the specification: values [5,1,3], sorted, query 4, k = 2
Scenario513 ==
    /\ Searched /\ xb = <<5, 1, 3>> /\ perm = <<1, 2, 0>>
    /\ xq = <<4>> /\ k = 2

\* C2 as claimed: at a tie between the frontiers the left candidate is written
\* first, and the scenario returns labels [2,0] with distances [1,1].
C2_LeftFirst ==
    /\ (Searched /\ Sorted /\ Len(xq) = 1 /\ FrontierTie(xq[1]))
          => xb[labels[1] + 1] <= xq[1]
    /\ Scenario513 => (labels = <<2, 0>> /\ distances = <<1, 1>>)

\* C2 amended: at a tie between the frontiers the right candidate (the smallest
\* value > q) is written first, and the scenario returns labels [0,2] with
\* distances [1,1].
C2_RightFirst ==
    /\ (Searched /\ Sorted /\ Len(xq) = 1 /\ FrontierTie(xq[1]))
          => xb[labels[1] + 1] > xq[1]
    /\ Scenario513 => (labels = <<0, 2>> /\ distances = <<1, 1>>)

C2_Witness == Scenario513 /\ Sorted /\ FrontierTie(4)

\* C3: on a Sorted index with ntotal < k (the empty index included) a search
\* completes without reading outside xb or perm, writes the ntotal neighbours
\* into the first ntotal slots and fills the other k - ntotal slots with label
\* -1 and distance +infinity.
C3_Padding ==
    (status # "none" /\ Sorted /\ ntotal < k)
        => /\ status = "ok"
           /\ ~oob
           /\ Len(distances) = Len(xq) * k
           /\ Len(labels) = Len(xq) * k
           /\ \A i \in 0 .. Len(xq) - 1 :
                 /\ NearestFirst(i, ntotal)
                 /\ \A j \in ntotal + 1 .. k :
                       IRow(i)[j] = -1 /\ DRow(i)[j] = INF

\* C4: without continuous update, a search after an add of at least one vector
\* that update_permutation or reset did not follow fails with "Call
\* update_permutation before search" and writes no result slot.
\* (Stated for the searches whose permutation is indeed not a sort permutation
\* of the store, which are among those the claim covers.)
C4_DirtyFailFast ==
    (status # "none" /\ ~continuous_update /\ stale /\ ~Sorted)
        => (status = "throw" /\ distances = <<>> /\ labels = <<>>)

\* the last operation was a search that did not fail with "Call
\* update_permutation before search": it went on to read perm and xb
AnsweredFromPerm == status \in {"ok", "crash"}

\* C11: whatever sequence of add, remove_ids, reset and update_permutation
\* came before it, with or without continuous update, a search that does not
\* fail with "Call update_permutation before search" is answered from a
\* permutation of the labels 0 .. ntotal-1 along which the values now in the
\* store are non-decreasing.
C11_NeverStale == AnsweredFromPerm => Sorted

(***************************************************************************)
(* Claims about IndexFlat, checked under SpecFlat.                          *)
(***************************************************************************)
\* the labels of 0 .. nt-1 outside sel, in increasing order
RECURSIVE Kept(_, _, _)
Kept(nt, sel, i) ==
    IF i >= nt THEN <<>>
    ELSE IF i \in sel THEN Kept(nt, sel, i + 1)
         ELSE <<i>> \o Kept(nt, sel, i + 1)

\* C5: remove_ids(sel) leaves exactly the vectors whose label is not selected,
\* in their original order (the j-th survivor becomes label j with its
\* coordinates unchanged), sets ntotal to their number and returns the old
\* ntotal minus the new one.
C5_Compaction ==
    [][\A sel \in SUBSET (0 .. ntotal - 1) :
          RemoveIds(sel) =>
             LET keep == Kept(ntotal, sel, 0)
             IN /\ ntotal' = Len(keep)
                /\ Len(xb') = ntotal' * d
                /\ \A j \in 1 .. Len(keep) :
                      Row(xb', d, j - 1) = Row(xb, d, keep[j])
                /\ ret' = <<ntotal - ntotal'>>
                /\ ret' = <<Cardinality(sel)>>]_vars

\* one of three vectors was removed, and the two left differ
C5_Witness ==
    /\ ret = <<1>> /\ ntotal = 2 /\ d = 2
    /\ Row(xb, d, 0) # Row(xb, d, 1)

\* C7: the buffer holds ntotal * d floats and ntotal >= 0 in every state;
\* add(n) raises ntotal by n and keeps the vectors stored before, under their
\* labels; reset sets ntotal to 0.
C7_StoreSize ==
    /\ [](Len(xb) = ntotal * d /\ ntotal >= 0)
    /\ [][/\ \A n \in 0 .. MaxAdd : \A x \in SeqsOfLen(Coords, n * d) :
               Add(n, x) => /\ ntotal' = ntotal + n
                            /\ SubSeq(xb', 1, ntotal * d) = xb
                            /\ SubSeq(xb', ntotal * d + 1, Len(xb')) = x
          /\ Reset => (ntotal' = 0 /\ xb' = <<>>)]_vars

\* a full store of dimension 2 built by adds
C7_Witness ==
    /\ ntotal = MaxN /\ d = 2 /\ ret = <<>>
    /\ Len(xb) = MaxN * 2
    /\ Row(xb, d, 0) # Row(xb, d, 2)

(***************************************************************************)
(* Operations on the coarse index and on IndexRefineFlat.  The coarse index *)
(* is an exact flat index of the same metric, which may need training; the  *)
(* caller owns it (own_fields = false) and can reach it directly.           *)
(***************************************************************************)
NotIn1D == UNCHANGED <<perm, continuous_update, stale>> /\ ret' = <<>>

\* base_index->train, called by its owner
BaseTrain ==
    /\ base_is_trained' = TRUE
    /\ NoOutput /\ NotIn1D
    /\ UNCHANGED <<flatVars, base_xb, base_ntotal, composed, is_trained,
                   rf_ntotal, k_factor, ndebug>>

\* base_index->add (n, x), called by its owner
BaseAdd(n, x) ==
    /\ base_is_trained
    /\ base_ntotal + n <= MaxNR
    /\ base_xb' = IndexFlat_add_xb(base_xb, x)
    /\ base_ntotal' = base_ntotal + n
    /\ NoOutput /\ NotIn1D
    /\ UNCHANGED <<flatVars, base_is_trained, composed, is_trained,
                   rf_ntotal, k_factor, ndebug>>

\* (mutant) the constructor without its check of base_index->ntotal
Compose_unchecked ==
    /\ composed = "no"
    /\ xb' = <<>>
    /\ ntotal' = 0
    /\ rf_ntotal' = 0
    /\ k_factor' = <<1, 1>>
    /\ is_trained' = base_is_trained
    /\ composed' = "yes"
    /\ NoOutput /\ NotIn1D
    /\ UNCHANGED <<d, metric_type, base_xb, base_ntotal, base_is_trained, ndebug>>

\* IndexRefineFlat::IndexRefineFlat (base_index)
Compose ==
    /\ composed = "no"
    /\ xb' = <<>>
    /\ ntotal' = 0
    /\ rf_ntotal' = 0
    /\ k_factor' = <<1, 1>>
    /\ is_trained' = base_is_trained
    /\ composed' = IF base_ntotal = 0 THEN "yes" ELSE "failed"
    /\ NoOutput /\ NotIn1D
    /\ UNCHANGED <<d, metric_type, base_xb, base_ntotal, base_is_trained, ndebug>>

\* the caller sets the public field k_factor
SetKFactor(f) ==
    /\ composed = "yes"
    /\ k_factor' = f
    /\ NoOutput /\ NotIn1D
    /\ UNCHANGED <<flatVars, base_xb, base_ntotal, base_is_trained, composed,
                   is_trained, rf_ntotal, ndebug>>

\* IndexRefineFlat::train
RefineTrain ==
    /\ composed = "yes"
    /\ base_is_trained' = TRUE
    /\ is_trained' = TRUE
    /\ NoOutput /\ NotIn1D
    /\ UNCHANGED <<flatVars, base_xb, base_ntotal, composed, rf_ntotal,
                   k_factor, ndebug>>

\* IndexRefineFlat::add (n, x)
RefineAdd(n, x) ==
    /\ composed = "yes"
    /\ base_ntotal + n <= MaxNR
    /\ NotIn1D
    /\ UNCHANGED <<d, metric_type, base_is_trained, composed, is_trained,
                   k_factor, ndebug>>
    /\ IF ~is_trained
       THEN /\ status' = "add_throw"
            /\ UNCHANGED <<xb, ntotal, base_xb, base_ntotal, rf_ntotal>>
            /\ xq' = <<>> /\ k' = 0 /\ distances' = <<>> /\ labels' = <<>>
            /\ oob' = FALSE /\ k_base' = 0 /\ base_labels' = <<>>
       ELSE /\ base_xb' = IndexFlat_add_xb(base_xb, x)
            /\ base_ntotal' = base_ntotal + n
            /\ IndexFlat_add(n, x)
            /\ rf_ntotal' = ntotal'
            /\ NoOutput

\* IndexRefineFlat::reset
RefineReset ==
    /\ composed = "yes"
    /\ base_xb' = <<>>
    /\ base_ntotal' = 0
    /\ IndexFlat_reset
    /\ rf_ntotal' = 0
    /\ NoOutput /\ NotIn1D
    /\ UNCHANGED <<d, metric_type, base_is_trained, composed, is_trained,
                   k_factor, ndebug>>

\* IndexRefineFlat::search (1, q, kk, distances, labels)
RefineSearch(q, kk) ==
    /\ composed = "yes"
    /\ xq' = q
    /\ k' = kk
    /\ NotIn1D
    /\ UNCHANGED <<flatVars, refineVars>>
    /\ IF ~is_trained
       THEN /\ status' = "throw"
            /\ k_base' = 0 /\ base_labels' = <<>>
            /\ distances' = <<>> /\ labels' = <<>> /\ oob' = FALSE
       ELSE \E kb \in {KBase(kk, k_factor)} :
            \E coarse \in {IndexFlat_search(metric_type, q, base_xb, d,
                                            base_ntotal, kb)} :
              /\ k_base' = kb
              /\ base_labels' = coarse.ids
              /\ IF ~ndebug /\ ~LabelsInRange(coarse.ids, rf_ntotal)
                 THEN /\ status' = "abort"
                      /\ distances' = IF kb = kk THEN coarse.val ELSE <<>>
                      /\ labels' = IF kb = kk THEN coarse.ids ELSE <<>>
                      /\ oob' = FALSE
                 ELSE IF ~SubsetReadsOutside(xb, d, coarse.ids)
                      THEN \E r \in {reorder_2_heaps(metric_type, kk, kb,
                                        compute_distance_subset(metric_type, q,
                                            xb, d, coarse, 0))} :
                              /\ status' = "ok"
                              /\ distances' = r.val
                              /\ labels' = r.ids
                              /\ oob' = FALSE
                      ELSE \E junk \in JunkX :
                           \E r \in {reorder_2_heaps(metric_type, kk, kb,
                                        compute_distance_subset(metric_type, q,
                                            xb, d, coarse, junk))} :
                              \/ /\ status' = "ok"
                                 /\ distances' = r.val
                                 /\ labels' = r.ids
                                 /\ oob' = TRUE
                              \/ /\ status' = "crash"
                                 /\ distances' = IF kb = kk THEN coarse.val ELSE <<>>
                                 /\ labels' = IF kb = kk THEN coarse.ids ELSE <<>>
                                 /\ oob' = TRUE

\* the values the caller gives k_factor
KFactors == {<<1, 1>>, <<5, 4>>, <<7, 4>>, <<2, 1>>}

InitRefine ==
    /\ d \in Dims
    /\ metric_type \in {METRIC_INNER_PRODUCT, METRIC_L2}
    /\ xb = <<>>
    /\ ntotal = 0
    /\ perm = <<>>
    /\ continuous_update = FALSE
    /\ stale = FALSE
    /\ ret = <<>>
    /\ xq = <<>>
    /\ k = 0
    /\ distances = <<>>
    /\ labels = <<>>
    /\ status = "none"
    /\ oob = FALSE
    /\ base_xb = <<>>
    /\ base_ntotal = 0
    /\ base_is_trained \in BOOLEAN
    /\ composed = "no"
    /\ is_trained = TRUE
    /\ rf_ntotal = 0
    /\ k_factor = <<1, 1>>
    /\ ndebug \in BOOLEAN
    /\ k_base = 0
    /\ base_labels = <<>>

\* the coarse index is populated only through the IndexRefineFlat once composed
NextRefine ==
    \/ composed # "yes" /\ BaseTrain
    \/ composed # "yes" /\ \E n \in 0 .. MaxAdd : \E x \in SeqsOfLen(Coords, n * d) : BaseAdd(n, x)
    \/ Compose
    \/ \E f \in KFactors : SetKFactor(f)
    \/ RefineTrain
    \/ \E n \in 0 .. MaxAdd : \E x \in SeqsOfLen(Coords, n * d) : RefineAdd(n, x)
    \/ RefineReset
    \/ \E q \in SeqsOfLen(Coords, d) : \E kk \in 1 .. MaxK : RefineSearch(q, kk)

SpecRefine == InitRefine /\ [][NextRefine]_vars

\* the owner of the coarse index also adds to it directly at any time
NextShared ==
    \/ BaseTrain
    \/ \E n \in 0 .. MaxAdd : \E x \in SeqsOfLen(Coords, n * d) : BaseAdd(n, x)
    \/ Compose
    \/ \E f \in KFactors : SetKFactor(f)
    \/ RefineTrain
    \/ \E n \in 0 .. MaxAdd : \E x \in SeqsOfLen(Coords, n * d) : RefineAdd(n, x)
    \/ RefineReset
    \/ \E q \in SeqsOfLen(Coords, d) : \E kk \in 1 .. MaxK : RefineSearch(q, kk)

SpecShared == InitRefine /\ [][NextShared]_vars

(***************************************************************************)
(* Claims about IndexRefineFlat, checked under SpecRefine and SpecShared.   *)
(***************************************************************************)
\* the last operation was an IndexRefineFlat::search that returned normally
RefineSearched == composed = "yes" /\ status = "ok"

\* what a direct IndexFlat::search over the vectors of the exact store returns
Direct == IndexFlat_search(metric_type, xq, xb, d, ntotal, k)

\* C6 as claimed: with k_factor = 1 the search returns the (distance, label)
\* sequence of a direct IndexFlat search over the same vectors.
C6_SameSequence ==
    (RefineSearched /\ k_factor = <<1, 1>>)
        => (distances = Direct.val /\ labels = Direct.ids)

\* C6 amended: with k_factor = 1 the search returns the distance sequence of
\* the direct search and the same (distance, label) pairs; two labels may be
\* exchanged only where their distances are equal.
C6_SameUpToTies ==
    (RefineSearched /\ k_factor = <<1, 1>>)
        => /\ distances = Direct.val
           /\ {<<distances[j], labels[j]>> : j \in 1 .. k}
                 = {<<Direct.val[j], Direct.ids[j]>> : j \in 1 .. k}
           /\ \A j \in 1 .. k : (labels[j] = -1) <=> (Direct.ids[j] = -1)

\* a search whose two results are stored vectors at the same distance
C6_Witness ==
    /\ RefineSearched /\ k_factor = <<1, 1>> /\ k = 2 /\ ntotal = 2
    /\ distances[1] = distances[2]
    /\ labels[1] # -1 /\ labels[2] # -1

\* C8: the constructor succeeds exactly on a coarse index with ntotal = 0; from
\* then on, under train, add and reset of the IndexRefineFlat, the coarse
\* index, the exact store and the IndexRefineFlat have the same ntotal and the
\* same vector under every label; an add while is_trained is false throws and
\* changes neither store.
C8_Lockstep ==
    /\ [](composed = "yes" =>
             /\ base_ntotal = ntotal /\ ntotal = rf_ntotal
             /\ base_xb = xb /\ Len(xb) = ntotal * d)
    /\ [][/\ Compose => (composed' = "yes" <=> base_ntotal = 0)
          /\ \A n \in 0 .. MaxAdd : \A x \in SeqsOfLen(Coords, n * d) :
                (RefineAdd(n, x) /\ ~is_trained)
                    => /\ status' = "add_throw"
                       /\ UNCHANGED <<xb, ntotal, base_xb, base_ntotal, rf_ntotal>>
          /\ \A n \in 0 .. MaxAdd : \A x \in SeqsOfLen(Coords, n * d) :
                (RefineAdd(n, x) /\ is_trained)
                    => /\ rf_ntotal' = rf_ntotal + n
                       /\ xb' = xb \o x /\ base_xb' = base_xb \o x]_vars

C8_Witness ==
    /\ composed = "yes" /\ rf_ntotal = MaxNR /\ base_ntotal = MaxNR
    /\ base_xb = xb /\ d = 2

\* C9: a search whose coarse index returned a label outside [-1, ntotal) ends
\* in a failure, before any exact distance is computed for that label, and
\* returns no result.  (A failed assert is counted as such a failure here.)
C9_LabelsValidated ==
    (composed = "yes" /\ status \in {"ok", "throw", "abort", "crash"}
       /\ ~LabelsInRange(base_labels, rf_ntotal))
        => (status \in {"throw", "abort"} /\ ~oob)

\* n is a nearest integer of kk * kf (either neighbour of a half counts)
Nearest(n, kk, kf) == 2 * Abs(n * kf[2] - kk * kf[1]) <= kf[2]

\* C10 as claimed: the number of candidates asked of the coarse index and
\* reranked is round (k * k_factor), the nearest integer, and it is >= k.
C10_KBaseRounded ==
    RefineSearched
        => /\ Nearest(k_base, k, k_factor)
           /\ Len(base_labels) = k_base
           /\ k_base >= k

\* C10 amended: the number of candidates asked of the coarse index and
\* reranked is k * k_factor truncated to an integer, and it is >= k.
C10_KBaseTruncated ==
    RefineSearched
        => /\ k_base * k_factor[2] <= k * k_factor[1]
           /\ (k_base + 1) * k_factor[2] > k * k_factor[1]
           /\ Len(base_labels) = k_base
           /\ k_base >= k
           /\ Len(distances) = k /\ Len(labels) = k

\* k * k_factor = 3.5 was truncated to 3 candidates, more than k
C10_Witness ==
    /\ RefineSearched /\ k = 2 /\ k_factor = <<7, 4>> /\ k_base = 3
    /\ Len(base_labels) = 3

\* an add on an untrained IndexRefineFlat was refused
C8_AddRefused == composed = "yes" /\ status = "add_throw" /\ ~is_trained

=============================================================================
